---- MODULE Spec2Model ----
(***************************************************************************)
(* Model of the storage bridges (Storage, StorageAscii), the CoreService   *)
(* constructors and the FFIError mapping of src/src/lib.rs.                *)
(*                                                                         *)
(* Text is modelled as sequences of bytes (naturals 0..255).  A Rust &str  *)
(* or String is a byte sequence that is valid UTF-8 (it may hold the byte  *)
(* 0).  A C pointer is either null or refers to memory, of which the model *)
(* keeps the bytes up to and including the first 0 byte.                   *)
(***************************************************************************)
EXTENDS Naturals, Sequences, FiniteSets

VARIABLES store, core, lastOp

vars == <<store, core, lastOp>>

-----------------------------------------------------------------------------
(* Bounds *)

\* Largest capacity of the output buffer a host hands to ffi_get.
MaxCap == 6

-----------------------------------------------------------------------------
(* Bytes, strings and pointers *)

KeyLit == <<107, 101, 121>>                 \* "key"
ValueLit == <<118, 97, 108, 117, 101>>      \* "value"
EmptyStr == <<>>                            \* ""
OtherKey == <<195, 169>>                    \* U+00E9 in UTF-8, a second key
NulKey == <<107, 0, 121>>                   \* "k\0y", valid UTF-8 with a 0 byte
NulValue == <<118, 0, 119>>                 \* "v\0w"
BadBytes == <<255>>                         \* never valid UTF-8

DebugTriggeredLit ==
    <<100, 101, 98, 117, 103, 32, 99, 97, 108, 108, 98, 97, 99, 107, 32, 104,
      97, 115, 32, 98, 101, 101, 110, 32, 116, 114, 105, 103, 103, 101, 114,
      101, 100>>                            \* "debug callback has been triggered"
BeforeRuntimeLit ==
    <<66, 101, 102, 111, 114, 101, 32, 82, 85, 78, 84, 73, 77, 69, 46, 114,
      101, 97, 100, 40, 41>>                \* "Before RUNTIME.read()"

\* serde_json::to_string(&serde_json::Value::Null): the text null.
JsonNull == <<110, 117, 108, 108>>

HasNul(s) == \E i \in 1..Len(s) : s[i] = 0

IsCont(b) == b >= 128 /\ b <= 191

\* str::from_utf8 / CStr::to_str: whether the bytes are well-formed UTF-8.
RECURSIVE IsUtf8(_)
IsUtf8(s) ==
    IF s = <<>> THEN TRUE
    ELSE LET b == s[1]
             n == Len(s)
             rest(k) == SubSeq(s, k + 1, n)
         IN  IF b < 128 THEN IsUtf8(rest(1))
             ELSE IF b >= 194 /\ b <= 223
                  THEN n >= 2 /\ IsCont(s[2]) /\ IsUtf8(rest(2))
             ELSE IF b >= 224 /\ b <= 239
                  THEN /\ n >= 3
                       /\ IsCont(s[2]) /\ IsCont(s[3])
                       /\ (b = 224 => s[2] >= 160)
                       /\ (b = 237 => s[2] <= 159)
                       /\ IsUtf8(rest(3))
             ELSE IF b >= 240 /\ b <= 244
                  THEN /\ n >= 4
                       /\ IsCont(s[2]) /\ IsCont(s[3]) /\ IsCont(s[4])
                       /\ (b = 240 => s[2] >= 144)
                       /\ (b = 244 => s[2] <= 143)
                       /\ IsUtf8(rest(4))
             ELSE FALSE

\* Option<String>
None == [some |-> FALSE, val |-> <<>>]
Some(v) == [some |-> TRUE, val |-> v]

\* *const c_char / AsciiPointer: null, or the memory it refers to.
NullPtr == [null |-> TRUE, mem |-> <<>>]
PtrTo(m) == [null |-> FALSE, mem |-> m]

\* CString::new(s): fails on an interior 0 byte, else appends the terminator.
CStringNew(s) ==
    IF HasNul(s) THEN [ok |-> FALSE, bytes |-> <<>>]
    ELSE [ok |-> TRUE, bytes |-> Append(s, 0)]

\* CStr::from_ptr(p): the bytes before the first 0 byte in memory.
RECURSIVE UpToNul(_)
UpToNul(m) ==
    IF m = <<>> \/ m[1] = 0 THEN <<>>
    ELSE <<m[1]>> \o UpToNul(Tail(m))

CStrFromPtr(p) == UpToNul(p.mem)

\* AsciiPointer::default(): the null pointer.
AsciiPointerDefault == NullPtr

\* AsciiPointer::as_str(): Err on a null pointer and on bytes that are not UTF-8.
AsciiAsStr(p) ==
    IF p.null THEN [ok |-> FALSE, str |-> <<>>]
    ELSE LET b == CStrFromPtr(p)
         IN  IF IsUtf8(b) THEN [ok |-> TRUE, str |-> b]
             ELSE [ok |-> FALSE, str |-> <<>>]

-----------------------------------------------------------------------------
(* The host: stub callbacks of both bridge kinds backed by one in-memory map *)

\* A callback object holds a function pointer or none (the derived Default).
Callbacks == {"null", "stub"}

\* Storage::new / StorageAscii::new: a bridge is its two callbacks.
StorageNew(get_callback, set_callback) ==
    [get_callback |-> get_callback, set_callback |-> set_callback]

StorageDefault == StorageNew("null", "null")

\* The bridge instances a host holds: one built by new from its two stubs, and
\* one whose callbacks hold no function pointer.
Bridges == {StorageNew("stub", "stub"), StorageDefault}

Wired(self) == self.get_callback = "stub" /\ self.set_callback = "stub"

\* The host stub's set: a null value removes the entry, else it is stored.
HostSet(st, kptr, vptr) ==
    LET k == CStrFromPtr(kptr)
    IN  IF vptr.null
        THEN [x \in (DOMAIN st) \ {k} |-> st[x]]
        ELSE [x \in (DOMAIN st) \cup {k} |->
                 IF x = k THEN CStrFromPtr(vptr) ELSE st[x]]

\* The host stub's get: null when it holds no entry, else the terminated bytes.
HostGet(st, kptr) ==
    LET k == CStrFromPtr(kptr)
    IN  IF k \in DOMAIN st THEN PtrTo(Append(st[k], 0)) ELSE NullPtr

CallRec(cb, kptr, vptr) == [cb |-> cb, key |-> kptr, value |-> vptr]

\* callback.call(..): panics when the callback holds no function pointer.
SetCallbackCall(cb, st, kptr, vptr) ==
    IF cb = "null"
    THEN [tag |-> "Panic", calls |-> <<>>, store |-> st]
    ELSE [tag |-> "Ok", calls |-> <<CallRec("set", kptr, vptr)>>,
          store |-> HostSet(st, kptr, vptr)]

GetCallbackCall(cb, st, kptr) ==
    IF cb = "null"
    THEN [tag |-> "Panic", calls |-> <<>>, got |-> NullPtr]
    ELSE [tag |-> "Ok", calls |-> <<CallRec("get", kptr, NullPtr)>>,
          got |-> HostGet(st, kptr)]

DebugCallbackCall(cb, msgptr) ==
    IF cb = "null"
    THEN [tag |-> "Panic", calls |-> <<>>]
    ELSE [tag |-> "Ok", calls |-> <<CallRec("debug", msgptr, NullPtr)>>]

-----------------------------------------------------------------------------
(* Raw bridge: impl Storage *)

SetPanic(st) == [tag |-> "Panic", calls |-> <<>>, store |-> st]

GetResult(tag, calls, got, ret) ==
    [tag |-> tag, calls |-> calls, got |-> got, ret |-> ret]

\* Variant: the value pointer handed to the callback is always null.
Storage_storage_set_null_value(self, st, key, value) ==
    LET ck == CStringNew(key)
    IN  IF ~ck.ok THEN SetPanic(st)
        ELSE IF value.some /\ ~CStringNew(value.val).ok THEN SetPanic(st)
        ELSE SetCallbackCall(self.set_callback, st, PtrTo(ck.bytes), NullPtr)

Storage_storage_set(self, st, key, value) ==
    LET ck == CStringNew(key)
    IN  IF ~ck.ok THEN SetPanic(st)
        ELSE IF value.some
             THEN LET cv == CStringNew(value.val)
                  IN  IF ~cv.ok THEN SetPanic(st)
                      ELSE SetCallbackCall(self.set_callback, st,
                                           PtrTo(ck.bytes), PtrTo(cv.bytes))
             ELSE SetCallbackCall(self.set_callback, st, PtrTo(ck.bytes), NullPtr)

Storage_storage_get(self, st, key) ==
    LET ck == CStringNew(key)
    IN  IF ~ck.ok THEN GetResult("Panic", <<>>, NullPtr, None)
        ELSE LET c == GetCallbackCall(self.get_callback, st, PtrTo(ck.bytes))
             IN  IF c.tag = "Panic" THEN GetResult("Panic", c.calls, NullPtr, None)
                 ELSE IF c.got.null THEN GetResult("Ok", c.calls, c.got, None)
                 ELSE LET b == CStrFromPtr(c.got)
                      IN  IF IsUtf8(b)
                          THEN GetResult("Ok", c.calls, c.got, Some(b))
                          ELSE GetResult("Panic", c.calls, c.got, None)

-----------------------------------------------------------------------------
(* Bounded bridge: impl StorageAscii *)

\* Variant: an absent value is handed over as an empty string.
StorageAscii_storage_set_empty_for_none(self, st, key, value) ==
    LET ck == CStringNew(key)
        cv == CStringNew(IF value.some THEN value.val ELSE EmptyStr)
    IN  IF ~ck.ok \/ ~cv.ok THEN SetPanic(st)
        ELSE SetCallbackCall(self.set_callback, st, PtrTo(ck.bytes), PtrTo(cv.bytes))

StorageAscii_storage_set(self, st, key, value) ==
    LET ck == CStringNew(key)
    IN  IF ~ck.ok THEN SetPanic(st)
        ELSE IF value.some
             THEN LET cv == CStringNew(value.val)
                  IN  IF ~cv.ok THEN SetPanic(st)
                      ELSE SetCallbackCall(self.set_callback, st,
                                           PtrTo(ck.bytes), PtrTo(cv.bytes))
             ELSE SetCallbackCall(self.set_callback, st,
                                  PtrTo(ck.bytes), AsciiPointerDefault)

StorageAscii_storage_get(self, st, key) ==
    LET ck == CStringNew(key)
    IN  IF ~ck.ok THEN GetResult("Panic", <<>>, NullPtr, None)
        ELSE LET c == GetCallbackCall(self.get_callback, st, PtrTo(ck.bytes))
             IN  IF c.tag = "Panic" THEN GetResult("Panic", c.calls, NullPtr, None)
                 ELSE IF c.got.null THEN GetResult("Ok", c.calls, c.got, None)
                 ELSE LET b == CStrFromPtr(c.got)
                      IN  IF IsUtf8(b)
                          THEN GetResult("Ok", c.calls, c.got, Some(b))
                          ELSE GetResult("Err", c.calls, c.got, None)

\* The host's output buffer before the call, and the value of its counter.
FreshBuffer(cap) == [i \in 1..cap |-> 170]

FfiGetResult(tag, calls, got, buf, written) ==
    [tag |-> tag, calls |-> calls, got |-> got, buf |-> buf, written |-> written]

StorageAscii_ffi_set(self, st, key, value) ==
    LET k == AsciiAsStr(key)
    IN  IF ~k.ok THEN SetPanic(st)
        ELSE IF value.null
             THEN StorageAscii_storage_set(self, st, k.str, None)
             ELSE LET v == CStrFromPtr(value)
                  IN  IF ~IsUtf8(v) THEN SetPanic(st)
                      ELSE StorageAscii_storage_set(self, st, k.str, Some(v))

\* Variant: the count leaves out the terminator (as_bytes for as_bytes_with_nul).
StorageAscii_ffi_get_without_nul(self, st, key, result, result_written) ==
    LET k == AsciiAsStr(key)
    IN  IF ~k.ok THEN FfiGetResult("Panic", <<>>, NullPtr, result, result_written)
        ELSE LET g == StorageAscii_storage_get(self, st, k.str)
             IN  IF g.tag # "Ok"
                 THEN FfiGetResult(g.tag, g.calls, g.got, result, result_written)
                 ELSE LET json == IF g.ret.some THEN g.ret.val ELSE JsonNull
                          cj == CStringNew(json)
                          n == Len(cj.bytes)
                      IN  IF ~cj.ok \/ n > Len(result)
                          THEN FfiGetResult("Panic", g.calls, g.got,
                                            result, result_written)
                          ELSE FfiGetResult("Ok", g.calls, g.got,
                                   [i \in 1..Len(result) |->
                                       IF i <= n THEN cj.bytes[i] ELSE result[i]],
                                   n - 1)

StorageAscii_ffi_get(self, st, key, result, result_written) ==
    LET k == AsciiAsStr(key)
    IN  IF ~k.ok THEN FfiGetResult("Panic", <<>>, NullPtr, result, result_written)
        ELSE LET g == StorageAscii_storage_get(self, st, k.str)
             IN  IF g.tag # "Ok"
                 THEN FfiGetResult(g.tag, g.calls, g.got, result, result_written)
                 ELSE LET json == IF g.ret.some THEN g.ret.val ELSE JsonNull
                          cj == CStringNew(json)
                          n == Len(cj.bytes)
                      IN  IF ~cj.ok \/ n > Len(result)
                          THEN FfiGetResult("Panic", g.calls, g.got,
                                            result, result_written)
                          ELSE FfiGetResult("Ok", g.calls, g.got,
                                   [i \in 1..Len(result) |->
                                       IF i <= n THEN cj.bytes[i] ELSE result[i]],
                                   n)

-----------------------------------------------------------------------------
(* Error taxonomy: mod ffi_error *)

FFIErrors == {"Ok", "Null", "Panic", "Fail"}

\* impl From<EnvError> for FFIError
FromEnvError == "Fail"

\* The #[ffi_service(error = "FFIError")] wrapper of every exported call:
\* Ok is SUCCESS, an Err goes through From<EnvError>, a caught panic is PANIC.
\* Variant: a caught panic is reported with the code of a domain error.
ToFFIError_panic_as_fail(tag) ==
    IF tag = "Ok" THEN "Ok" ELSE FromEnvError

ToFFIError(tag) ==
    CASE tag = "Ok" -> "Ok"
      [] tag = "Err" -> FromEnvError
      [] tag = "Panic" -> "Panic"

-----------------------------------------------------------------------------
(* Core service: impl CoreService *)

\* CoreService before any constructor has returned a handle.
Uninitialized == [state |-> "Uninitialized", tag |-> "None", bridge |-> StorageDefault]

\* CoreService { storage: None | Some(StorageI::Bare(s)) | Some(StorageI::Ascii(s)) }
CoreServiceOf(tag, bridge) ==
    [state |-> "Constructed", tag |-> tag, bridge |-> bridge]

CtorResult(tag, calls, st, service) ==
    [tag |-> tag, calls |-> calls, store |-> st, service |-> service, got |-> NullPtr]

ctor_native_with_debug_call(st, debug_callback) ==
    LET c == CStringNew(DebugTriggeredLit)
    IN  IF ~c.ok THEN CtorResult("Err", <<>>, st, Uninitialized)
        ELSE LET d == DebugCallbackCall(debug_callback, PtrTo(c.bytes))
             IN  IF d.tag = "Panic" THEN CtorResult("Panic", d.calls, st, Uninitialized)
                 ELSE CtorResult("Ok", d.calls, st,
                                 CoreServiceOf("None", StorageDefault))

ctor_with_storage_with_set(st, storage) ==
    LET r == Storage_storage_set(storage, st, KeyLit, Some(ValueLit))
    IN  IF r.tag = "Panic" THEN CtorResult("Panic", r.calls, st, Uninitialized)
        ELSE CtorResult("Ok", r.calls, r.store,
                        CoreServiceOf("Bare", storage))

ctor_with_storage_with_get(st, storage) ==
    LET r == Storage_storage_get(storage, st, KeyLit)
    IN  IF r.tag = "Panic"
        THEN [CtorResult("Panic", r.calls, st, Uninitialized) EXCEPT !.got = r.got]
        ELSE [CtorResult("Ok", r.calls, st, CoreServiceOf("Bare", storage))
                 EXCEPT !.got = r.got]

ctor_with_storage_without_set_get(st, storage, debug_callback) ==
    LET c == CStringNew(DebugTriggeredLit)
    IN  IF ~c.ok THEN CtorResult("Err", <<>>, st, Uninitialized)
        ELSE LET d == DebugCallbackCall(debug_callback, PtrTo(c.bytes))
             IN  IF d.tag = "Panic" THEN CtorResult("Panic", d.calls, st, Uninitialized)
                 ELSE CtorResult("Ok", d.calls, st, CoreServiceOf("Bare", storage))

\* Variant: the bounded bridge is stored under the raw variant.
ctor_with_storage_ascii_with_set_as_bare(st, storage) ==
    LET r == StorageAscii_storage_set(storage, st, KeyLit, Some(ValueLit))
    IN  IF r.tag = "Panic" THEN CtorResult("Panic", r.calls, st, Uninitialized)
        ELSE CtorResult("Ok", r.calls, r.store, CoreServiceOf("Bare", storage))

ctor_with_storage_ascii_with_set(st, storage) ==
    LET r == StorageAscii_storage_set(storage, st, KeyLit, Some(ValueLit))
    IN  IF r.tag = "Panic" THEN CtorResult("Panic", r.calls, st, Uninitialized)
        ELSE CtorResult("Ok", r.calls, r.store,
                        CoreServiceOf("Ascii", storage))

\* The Result of storage_get is bound to _value and dropped, an Err included.
ctor_with_storage_ascii_with_get(st, storage) ==
    LET r == StorageAscii_storage_get(storage, st, KeyLit)
    IN  IF r.tag = "Panic"
        THEN [CtorResult("Panic", r.calls, st, Uninitialized) EXCEPT !.got = r.got]
        ELSE [CtorResult("Ok", r.calls, st, CoreServiceOf("Ascii", storage))
                 EXCEPT !.got = r.got]

ctor_with_storage_ascii_without_set_get(st, storage, debug_callback) ==
    LET c == CStringNew(BeforeRuntimeLit)
    IN  IF ~c.ok THEN CtorResult("Err", <<>>, st, Uninitialized)
        ELSE LET d == DebugCallbackCall(debug_callback, PtrTo(c.bytes))
             IN  IF d.tag = "Panic" THEN CtorResult("Panic", d.calls, st, Uninitialized)
                 ELSE CtorResult("Ok", d.calls, st, CoreServiceOf("Ascii", storage))

\* #[ffi_service_ctor]: the handle is written only when the constructor
\* returned Ok; an Err or a caught panic leaves the host without a handle.
ServiceCtor(r) ==
    [outcome |-> ToFFIError(r.tag),
     core |-> IF r.tag = "Ok" THEN r.service ELSE Uninitialized]

-----------------------------------------------------------------------------
(* Inputs *)

StrKeys == {KeyLit, OtherKey, NulKey}
StrValues == {None, Some(ValueLit), Some(EmptyStr), Some(NulValue)}
PtrKeys == {NullPtr, PtrTo(Append(KeyLit, 0)), PtrTo(Append(OtherKey, 0)),
            PtrTo(Append(BadBytes, 0))}
PtrValues == {NullPtr, PtrTo(Append(ValueLit, 0)), PtrTo(<<0>>),
              PtrTo(Append(BadBytes, 0))}
HostKeys == {KeyLit, OtherKey}
HostValues == {BadBytes}
Caps == 0..MaxCap

CtorOps == {"initialize_native_with_debug_call",
            "initialize_with_storage_with_set",
            "initialize_with_storage_with_get",
            "initialize_with_storage_without_set_get",
            "initialize_with_storage_ascii_with_set",
            "initialize_with_storage_ascii_with_get",
            "initialize_with_storage_ascii_without_set_get"}

-----------------------------------------------------------------------------
(* State *)

\* The record of the latest call: its inputs and everything it produced.
\*   raised  a panic was raised inside the call
\*   got     what the host get-callback returned (null when it was not reached)
\*   ret     the Option<String> storage_get returned
\*   prior   for a storage_get: the value v of an immediately preceding
\*           storage_set(key, Some(v)) on the same bridge and key, if any
Idle ==
    [op |-> "none", kind |-> "None", self |-> StorageDefault, debug |-> "null",
     key |-> <<>>, value |-> None, keyPtr |-> NullPtr, valuePtr |-> NullPtr,
     cap |-> 0, outcome |-> "Ok", raised |-> FALSE, calls |-> <<>>,
     got |-> NullPtr, ret |-> None, buf |-> <<>>, written |-> 0, prior |-> None]

Init ==
    /\ store = <<>>
    /\ core = Uninitialized
    /\ lastOp = Idle

\* The host changes its own map between calls (the map is the host's).
HostPut ==
    \E k \in HostKeys, v \in HostValues :
        /\ store' = HostSet(store, PtrTo(Append(k, 0)), PtrTo(Append(v, 0)))
        /\ lastOp' = [Idle EXCEPT !.op = "host"]
        /\ UNCHANGED core

SetOp(op, kind, self, key, value, r) ==
    [Idle EXCEPT !.op = op, !.kind = kind, !.self = self, !.key = key,
                 !.value = value, !.outcome = ToFFIError(r.tag),
                 !.raised = (r.tag = "Panic"), !.calls = r.calls]

PriorSet(kind, self, key) ==
    IF /\ lastOp.op = "storage_set" /\ lastOp.kind = kind /\ lastOp.self = self
       /\ lastOp.key = key /\ lastOp.value.some
    THEN lastOp.value
    ELSE None

GetOp(op, kind, self, key, r) ==
    [Idle EXCEPT !.op = op, !.kind = kind, !.self = self, !.key = key,
                 !.outcome = ToFFIError(r.tag), !.raised = (r.tag = "Panic"),
                 !.calls = r.calls, !.got = r.got, !.ret = r.ret,
                 !.prior = PriorSet(kind, self, key)]

CallStorageSet ==
    \E self \in Bridges, key \in StrKeys, value \in StrValues :
        LET r == Storage_storage_set(self, store, key, value)
        IN  /\ store' = r.store
            /\ lastOp' = SetOp("storage_set", "Bare", self, key, value, r)
            /\ UNCHANGED core

CallStorageGet ==
    \E self \in Bridges, key \in StrKeys :
        LET r == Storage_storage_get(self, store, key)
        IN  /\ lastOp' = GetOp("storage_get", "Bare", self, key, r)
            /\ UNCHANGED <<store, core>>

CallAsciiStorageSet ==
    \E self \in Bridges, key \in StrKeys, value \in StrValues :
        LET r == StorageAscii_storage_set(self, store, key, value)
        IN  /\ store' = r.store
            /\ lastOp' = SetOp("storage_set", "Ascii", self, key, value, r)
            /\ UNCHANGED core

CallAsciiStorageGet ==
    \E self \in Bridges, key \in StrKeys :
        LET r == StorageAscii_storage_get(self, store, key)
        IN  /\ lastOp' = GetOp("storage_get", "Ascii", self, key, r)
            /\ UNCHANGED <<store, core>>

storage_ascii_ffi_set ==
    \E self \in Bridges, key \in PtrKeys, value \in PtrValues :
        LET r == StorageAscii_ffi_set(self, store, key, value)
        IN  /\ store' = r.store
            /\ lastOp' = [Idle EXCEPT !.op = "ffi_set", !.kind = "Ascii",
                             !.self = self, !.keyPtr = key, !.valuePtr = value,
                             !.outcome = ToFFIError(r.tag),
                             !.raised = (r.tag = "Panic"), !.calls = r.calls]
            /\ UNCHANGED core

storage_ascii_ffi_get ==
    \E self \in Bridges, key \in PtrKeys, cap \in Caps :
        LET r == StorageAscii_ffi_get(self, store, key, FreshBuffer(cap), 0)
        IN  /\ lastOp' = [Idle EXCEPT !.op = "ffi_get", !.kind = "Ascii",
                             !.self = self, !.keyPtr = key, !.cap = cap,
                             !.outcome = ToFFIError(r.tag),
                             !.raised = (r.tag = "Panic"), !.calls = r.calls,
                             !.got = r.got, !.buf = r.buf, !.written = r.written]
            /\ UNCHANGED <<store, core>>

Construct(op, kind, storage, debug_callback, r) ==
    LET b == ServiceCtor(r)
    IN  /\ core.state = "Uninitialized"
        /\ core' = b.core
        /\ store' = IF r.tag = "Ok" THEN r.store ELSE store
        /\ lastOp' = [Idle EXCEPT !.op = op, !.kind = kind, !.self = storage,
                         !.debug = debug_callback, !.outcome = b.outcome,
                         !.raised = (r.tag = "Panic"), !.calls = r.calls,
                         !.got = r.got]

initialize_native_with_debug_call ==
    \E debug_callback \in Callbacks :
        Construct("initialize_native_with_debug_call", "None", StorageDefault,
                  debug_callback, ctor_native_with_debug_call(store, debug_callback))

initialize_with_storage_with_set ==
    \E storage \in Bridges :
        Construct("initialize_with_storage_with_set", "Bare", storage, "null",
                  ctor_with_storage_with_set(store, storage))

initialize_with_storage_with_get ==
    \E storage \in Bridges :
        Construct("initialize_with_storage_with_get", "Bare", storage, "null",
                  ctor_with_storage_with_get(store, storage))

initialize_with_storage_without_set_get ==
    \E storage \in Bridges, debug_callback \in Callbacks :
        Construct("initialize_with_storage_without_set_get", "Bare", storage,
                  debug_callback,
                  ctor_with_storage_without_set_get(store, storage, debug_callback))

initialize_with_storage_ascii_with_set ==
    \E storage \in Bridges :
        Construct("initialize_with_storage_ascii_with_set", "Ascii", storage, "null",
                  ctor_with_storage_ascii_with_set(store, storage))

initialize_with_storage_ascii_with_get ==
    \E storage \in Bridges :
        Construct("initialize_with_storage_ascii_with_get", "Ascii", storage, "null",
                  ctor_with_storage_ascii_with_get(store, storage))

initialize_with_storage_ascii_without_set_get ==
    \E storage \in Bridges, debug_callback \in Callbacks :
        Construct("initialize_with_storage_ascii_without_set_get", "Ascii", storage,
                  debug_callback,
                  ctor_with_storage_ascii_without_set_get(store, storage, debug_callback))

Next ==
    \/ HostPut
    \/ CallStorageSet
    \/ CallStorageGet
    \/ CallAsciiStorageSet
    \/ CallAsciiStorageGet
    \/ storage_ascii_ffi_set
    \/ storage_ascii_ffi_get
    \/ initialize_native_with_debug_call
    \/ initialize_with_storage_with_set
    \/ initialize_with_storage_with_get
    \/ initialize_with_storage_without_set_get
    \/ initialize_with_storage_ascii_with_set
    \/ initialize_with_storage_ascii_with_get
    \/ initialize_with_storage_ascii_without_set_get

Spec == Init /\ [][Next]_vars

-----------------------------------------------------------------------------
(* Properties *)

IsStorageSet == lastOp.op = "storage_set"
IsStorageGet == lastOp.op = "storage_get"
IsFfiSet == lastOp.op = "ffi_set"
IsFfiGet == lastOp.op = "ffi_get"
IsCtor == lastOp.op \in CtorOps

TermPtr(s) == PtrTo(Append(s, 0))

\* C1: a storage_get that directly follows storage_set(k, Some(v)) on the same
\* wired bridge, with k and v free of 0 bytes, returns Some(v).
C1_RoundTrip ==
    (/\ IsStorageGet /\ lastOp.prior.some /\ Wired(lastOp.self)
     /\ ~HasNul(lastOp.key) /\ ~HasNul(lastOp.prior.val))
    => (lastOp.outcome = "Ok" /\ lastOp.ret = lastOp.prior)

C1_Witness ==
    /\ IsStorageGet /\ lastOp.kind = "Ascii" /\ Wired(lastOp.self)
    /\ lastOp.key = OtherKey
    /\ lastOp.prior = Some(ValueLit) /\ lastOp.ret = Some(ValueLit)

\* The bytes ffi_get leaves in a buffer that holds the text null and its
\* terminator at the start and is untouched behind them.
NullWritten(buf) ==
    /\ Len(buf) >= 5
    /\ SubSeq(buf, 1, 5) = Append(JsonNull, 0)
    /\ \A i \in 6..Len(buf) : buf[i] = FreshBuffer(Len(buf))[i]

\* C2 as stated: for every key the host holds no entry for, the raw get returns
\* None and the bounded ffi_get returns Ok with null and its terminator written
\* and outBytesWritten = 5.
C2_Original ==
    /\ (IsStorageGet /\ lastOp.kind = "Bare" /\ Wired(lastOp.self)
        /\ lastOp.key \notin DOMAIN store)
       => (lastOp.outcome = "Ok" /\ lastOp.ret = None)
    /\ (IsFfiGet /\ Wired(lastOp.self) /\ ~lastOp.keyPtr.null
        /\ CStrFromPtr(lastOp.keyPtr) \notin DOMAIN store)
       => (lastOp.outcome = "Ok" /\ lastOp.written = 5 /\ NullWritten(lastOp.buf))

\* C2 amended: the same for keys that are valid UTF-8 without a 0 byte and, on
\* the bounded bridge, an output buffer of capacity 5 or more.
C2_Amended ==
    /\ (IsStorageGet /\ lastOp.kind = "Bare" /\ Wired(lastOp.self)
        /\ ~HasNul(lastOp.key) /\ lastOp.key \notin DOMAIN store)
       => (lastOp.outcome = "Ok" /\ lastOp.ret = None)
    /\ (IsFfiGet /\ Wired(lastOp.self) /\ ~lastOp.keyPtr.null
        /\ IsUtf8(CStrFromPtr(lastOp.keyPtr))
        /\ CStrFromPtr(lastOp.keyPtr) \notin DOMAIN store
        /\ lastOp.cap >= 5)
       => (lastOp.outcome = "Ok" /\ lastOp.written = 5 /\ NullWritten(lastOp.buf))

C2_Witness ==
    /\ IsFfiGet /\ Wired(lastOp.self)
    /\ lastOp.keyPtr = TermPtr(OtherKey) /\ OtherKey \notin DOMAIN store
    /\ KeyLit \in DOMAIN store
    /\ lastOp.cap = 6 /\ lastOp.outcome = "Ok" /\ lastOp.written = 5
    /\ lastOp.buf = <<110, 117, 108, 108, 0, 170>>

\* C3: storage_set(k, None) hands the set-callback a null value pointer and
\* never a pointer to an empty string; storage_set(k, Some("")) hands it a
\* non-null pointer to an empty string; the host ends up without an entry in
\* the first case and with an empty entry in the second.
C3_AbsentIsNull ==
    IsStorageSet =>
        /\ (~lastOp.value.some) =>
              \A i \in 1..Len(lastOp.calls) : lastOp.calls[i].value.null
        /\ (Wired(lastOp.self) /\ ~HasNul(lastOp.key)) =>
              /\ (lastOp.value = None) =>
                    /\ lastOp.calls = <<CallRec("set", TermPtr(lastOp.key), NullPtr)>>
                    /\ lastOp.key \notin DOMAIN store
              /\ (lastOp.value = Some(EmptyStr)) =>
                    /\ Len(lastOp.calls) = 1
                    /\ lastOp.calls[1].cb = "set"
                    /\ lastOp.calls[1].key = TermPtr(lastOp.key)
                    /\ ~lastOp.calls[1].value.null
                    /\ CStrFromPtr(lastOp.calls[1].value) = EmptyStr
                    /\ lastOp.key \in DOMAIN store
                    /\ store[lastOp.key] = EmptyStr

C3_Witness ==
    /\ IsStorageSet /\ lastOp.kind = "Ascii" /\ lastOp.value = None
    /\ lastOp.calls = <<CallRec("set", TermPtr(KeyLit), NullPtr)>>
    /\ KeyLit \notin DOMAIN store

\* C4 as stated: a storage_set or storage_get whose key or present value holds
\* a 0 byte ends in Fail, raises no panic and reaches no host callback.
C4_NulFails ==
    ((IsStorageSet \/ IsStorageGet)
     /\ (HasNul(lastOp.key) \/ (lastOp.value.some /\ HasNul(lastOp.value.val))))
    => (lastOp.outcome = "Fail" /\ ~lastOp.raised /\ lastOp.calls = <<>>)

\* C5 as stated: a get whose host callback returned a non-null buffer that is
\* not UTF-8 reports Fail and raises no panic.
C5_BadBytesFail ==
    ((IsStorageGet \/ IsFfiGet)
     /\ ~lastOp.got.null /\ ~IsUtf8(CStrFromPtr(lastOp.got)))
    => (lastOp.outcome = "Fail" /\ ~lastOp.raised /\ ~lastOp.ret.some)

\* The length, terminator included, of what ffi_get has to copy out.
Needed == 1 + Len(IF lastOp.got.null THEN JsonNull ELSE CStrFromPtr(lastOp.got))

\* C6 as stated: when ffi_get has a result to copy, a buffer that is too small
\* gives Fail without a panic and without a write, and a buffer that is large
\* enough gives outBytesWritten = length of the result + 1.
C6_TooSmallFails ==
    (/\ IsFfiGet /\ Wired(lastOp.self) /\ AsciiAsStr(lastOp.keyPtr).ok
     /\ (lastOp.got.null \/ IsUtf8(CStrFromPtr(lastOp.got))))
    => /\ (lastOp.cap < Needed) =>
              /\ lastOp.outcome = "Fail" /\ ~lastOp.raised
              /\ lastOp.buf = FreshBuffer(lastOp.cap)
       /\ (lastOp.cap >= Needed) =>
              (lastOp.outcome = "Ok" /\ lastOp.written = Needed)

C8_BadTextFails ==
    (\/ ((IsFfiSet \/ IsFfiGet)
         /\ ~lastOp.keyPtr.null /\ ~IsUtf8(CStrFromPtr(lastOp.keyPtr)))
     \/ (IsFfiSet /\ ~lastOp.valuePtr.null /\ ~IsUtf8(CStrFromPtr(lastOp.valuePtr))))
    => (lastOp.outcome = "Fail" /\ ~lastOp.raised /\ lastOp.calls = <<>>)

\* What each constructor is to produce from the bridge it was given.
Produced(op, storage) ==
    CASE op = "initialize_native_with_debug_call" ->
             CoreServiceOf("None", StorageDefault)
      [] op \in {"initialize_with_storage_with_set",
                 "initialize_with_storage_with_get",
                 "initialize_with_storage_without_set_get"} ->
             CoreServiceOf("Bare", storage)
      [] op \in {"initialize_with_storage_ascii_with_set",
                 "initialize_with_storage_ascii_with_get",
                 "initialize_with_storage_ascii_without_set_get"} ->
             CoreServiceOf("Ascii", storage)

C9_Held ==
    /\ core.state = "Constructed" => core.tag \in {"None", "Bare", "Ascii"}
    /\ core.tag = "None" => core.bridge = StorageDefault
    /\ (IsCtor /\ lastOp.outcome = "Ok") => core = Produced(lastOp.op, lastOp.self)
    /\ (IsCtor /\ lastOp.outcome # "Ok") => core = Uninitialized

C9_Fixed ==
    core.state = "Constructed" => (core' = core /\ lastOp'.op \notin CtorOps)

\* C9: a CoreService holds no bridge or one bridge, of the variant and with the
\* callbacks its constructor was given, and once constructed no step changes
\* what it holds or runs a constructor's probe again.
C9_OneBridgeForLife == [](C9_Held) /\ [][C9_Fixed]_vars

C9_Witness ==
    /\ core = CoreServiceOf("Ascii", StorageNew("stub", "stub"))
    /\ IsFfiSet /\ lastOp.outcome = "Ok" /\ lastOp.valuePtr.null

\* The callbacks a constructor is to invoke, in order.
ProbeCalls(op) ==
    CASE op \in {"initialize_with_storage_with_set",
                 "initialize_with_storage_ascii_with_set"} ->
             <<CallRec("set", TermPtr(KeyLit), TermPtr(ValueLit))>>
      [] op \in {"initialize_with_storage_with_get",
                 "initialize_with_storage_ascii_with_get"} ->
             <<CallRec("get", TermPtr(KeyLit), NullPtr)>>
      [] op \in {"initialize_native_with_debug_call",
                 "initialize_with_storage_without_set_get"} ->
             <<CallRec("debug", TermPtr(DebugTriggeredLit), NullPtr)>>
      [] op = "initialize_with_storage_ascii_without_set_get" ->
             <<CallRec("debug", TermPtr(BeforeRuntimeLit), NullPtr)>>

ProbeOps == {"initialize_with_storage_with_set", "initialize_with_storage_with_get",
             "initialize_with_storage_ascii_with_set",
             "initialize_with_storage_ascii_with_get"}

GetProbeOps == {"initialize_with_storage_with_get",
                "initialize_with_storage_ascii_with_get"}

\* The callback the constructor's validation mode uses holds a function pointer.
ModeWired ==
    IF lastOp.op \in ProbeOps THEN Wired(lastOp.self) ELSE lastOp.debug = "stub"

\* C10 as stated: a constructor invokes exactly the callbacks of its validation
\* mode, each once, and a get-probe constructor keeps the bridge whatever the
\* get-callback returned.
C10_ProbesOnce ==
    (IsCtor /\ ModeWired) =>
        /\ lastOp.calls = ProbeCalls(lastOp.op)
        /\ lastOp.op \in GetProbeOps =>
              (lastOp.outcome = "Ok" /\ core = Produced(lastOp.op, lastOp.self))

\* The part of C10 that counts the invocations.
C10_CallsOnly == (IsCtor /\ ModeWired) => lastOp.calls = ProbeCalls(lastOp.op)

====
